---- MODULE Spec2Model ----
(***************************************************************************)
(* Model of src/dashboard.py: the Streamlit dashboard of the multi-agent   *)
(* trading bot.  The script is re-executed from the top on every rerun;    *)
(* the model follows one browser session: the script's position (pc), its  *)
(* widgets, the st.cache_data entries, the data frames it loaded and the   *)
(* page it rendered, over the SQLite store written by the bot.             *)
(*                                                                         *)
(* Columns that no modelled statement branches on (symbol, entry, sl, tp,  *)
(* exit_price, reason text, the sentiment scores) are left out of the     *)
(* rows, and so is confidence, whose formatting in the trade table and    *)
(* the decision log is not modelled.  Timestamps and profits are small    *)
(* integers.  A nullable column holds None (<<>>) or Some(v) (<<v>>).     *)
(***************************************************************************)
EXTENDS Integers, Sequences, FiniteSets, TLC

VARIABLES
    trades,          \* table trades, in rowid order (id = position)
    sentiment,       \* table market_sentiment, in rowid order
    cache,           \* st.cache_data entries of the three cached loaders
    auto_refresh,    \* checkbox "Auto Refresh (10 detik)"
    date_range,      \* date_input "Rentang": <<from, to>>
    selected_agent,  \* selectbox "Pilih Agen"
    agent_options,   \* options of the selectbox as last built
    pc,              \* position of the script run
    invoked,         \* the load operations called by the current run
    error,           \* exception that ended the current run, or "none"
    trades_df,       \* result of load_trades()
    agent_perf,      \* result of load_agent_performance()
    sentiment_df,    \* result of load_sentiment_history()
    equity_df,       \* result of get_equity_curve()
    page             \* what the current run has rendered

vars == <<trades, sentiment, cache, auto_refresh, date_range, selected_agent,
          agent_options, pc, invoked, error, trades_df, agent_perf,
          sentiment_df, equity_df, page>>

store == <<trades, sentiment>>
widgets == <<auto_refresh, date_range, selected_agent, agent_options>>
frames == <<trades_df, agent_perf, sentiment_df, equity_df>>

----------------------------------------------------------------------------
(* Bounds of the model.                                                    *)

\* most rows the trades table holds
MaxTrades == 2

\* LIMIT of load_trades (100 in the source), scaled with MaxTrades so that
\* the table can hold more rows than the window
TradeLimit == 1

\* LIMIT of load_sentiment_history
SentimentLimit == 50

\* filtered_trades.head(5) of the decision log
LogHead == 5

None == <<>>
Some(v) == <<v>>
IsNull(o) == o = None
Val(o) == o[1]

\* two days: 1 lies before the last seven days, 2 within them
Timestamps == {1, 2}
Agents == {"A", "B"}
Semua == "Semua"

\* action tags: the two the dashboard counts, and one other lifecycle tag
TradeActions == {"BUY", "SELL", "CLOSE"}

\* lexicographic order of the agent names
AgentRank == [g \in Agents |-> IF g = "A" THEN 1 ELSE 2]

\* sum of f[x] over the finite set S
RECURSIVE SumOver(_, _)
SumOver(S, f) ==
    IF S = {} THEN 0
    ELSE LET x == CHOOSE y \in S : TRUE IN f[x] + SumOver(S \ {x}, f)

Min(a, b) == IF a <= b THEN a ELSE b

Injective(s) == \A i, j \in DOMAIN s : s[i] = s[j] => i = j

----------------------------------------------------------------------------
(* The four queries, as functions of the store.                            *)

ClosedIds(tbl) == {i \in 1..Len(tbl) : ~IsNull(tbl[i].profit)}

\* The columns load_trades selects (reflection is not among them).
TradeRow(tbl, i) ==
    [id |-> i, timestamp |-> tbl[i].timestamp, action |-> tbl[i].action,
     profit |-> tbl[i].profit, agent_name |-> tbl[i].agent_name]

\* SELECT ... FROM trades ORDER BY timestamp DESC LIMIT n.  SQL leaves the
\* order of rows with equal timestamp open: every order is a result.
LoadTradesResults(tbl) ==
    LET n == Len(tbl)
        k == Min(n, TradeLimit)
        picks == {w \in [1..k -> 1..n] :
                     /\ Injective(w)
                     /\ \A a, b \in 1..k :
                          a < b => tbl[w[a]].timestamp >= tbl[w[b]].timestamp
                     /\ \A j \in 1..n :
                          (\A a \in 1..k : w[a] # j) =>
                              \A a \in 1..k : tbl[j].timestamp <= tbl[w[a]].timestamp}
    IN {[a \in 1..k |-> TradeRow(tbl, w[a])] : w \in picks}

ProfitOf(tbl) == [i \in 1..Len(tbl) |-> IF IsNull(tbl[i].profit) THEN 0 ELSE Val(tbl[i].profit)]

\* PerfRow with the win test written profit >= 0: a break-even trade
\* counts as a win
PerfRowBreakEvenWins(tbl, g) ==
    LET mine == {i \in ClosedIds(tbl) : tbl[i].agent_name = g}
        P == ProfitOf(tbl)
    IN [agent_name |-> g,
        total_trades |-> Cardinality(mine),
        wins |-> Cardinality({i \in mine : P[i] >= 0}),
        total_profit |-> SumOver(mine, P)]

\* One row of the GROUP BY agent_name over WHERE profit IS NOT NULL.
PerfRow(tbl, g) ==
    LET mine == {i \in ClosedIds(tbl) : tbl[i].agent_name = g}
        P == ProfitOf(tbl)
    IN [agent_name |-> g,
        total_trades |-> Cardinality(mine),
        wins |-> Cardinality({i \in mine : P[i] > 0}),
        total_profit |-> SumOver(mine, P)]

\* The sequence of the elements of S (each with a rank given by r), by
\* ascending rank.
RECURSIVE SeqByRank(_, _)
SeqByRank(S, r) ==
    IF S = {} THEN <<>>
    ELSE LET first == CHOOSE x \in S : \A y \in S : r[x] <= r[y]
         IN <<first>> \o SeqByRank(S \ {first}, r)

\* load_agent_performance: one row per agent_name that has a closed trade.
\* SQLite groups by sorting on the key, so the rows come by agent_name.
LoadAgentPerformance(tbl) ==
    LET groups == {tbl[i].agent_name : i \in ClosedIds(tbl)}
        names == SeqByRank(groups, AgentRank)
    IN [k \in 1..Len(names) |-> PerfRow(tbl, names[k])]

\* load_sentiment_history: newest first, at most SentimentLimit rows.
LoadSentimentResults(tbl) ==
    LET n == Len(tbl)
        k == Min(n, SentimentLimit)
        picks == {w \in [1..k -> 1..n] :
                     /\ Injective(w)
                     /\ \A a, b \in 1..k :
                          a < b => tbl[w[a]].timestamp >= tbl[w[b]].timestamp
                     /\ \A j \in 1..n :
                          (\A a \in 1..k : w[a] # j) =>
                              \A a \in 1..k : tbl[j].timestamp <= tbl[w[a]].timestamp}
    IN {[a \in 1..k |-> tbl[w[a]]] : w \in picks}

\* The closed trades in the order of ORDER BY timestamp, rows of equal
\* timestamp by id.
ClosedByTime(tbl) ==
    LET C == ClosedIds(tbl)
        m == Cardinality(C)
    IN CHOOSE s \in [1..m -> C] :
          /\ Injective(s)
          /\ \A a, b \in 1..m : a < b =>
                \/ tbl[s[a]].timestamp < tbl[s[b]].timestamp
                \/ tbl[s[a]].timestamp = tbl[s[b]].timestamp /\ s[a] < s[b]

\* SUM(profit) OVER (ORDER BY timestamp): the window frame defaults to
\* RANGE BETWEEN UNBOUNDED PRECEDING AND CURRENT ROW, so the sum at a row
\* covers every row whose timestamp is <= the row's, its peers included.
WindowSum(tbl, i) ==
    SumOver({j \in ClosedIds(tbl) : tbl[j].timestamp <= tbl[i].timestamp},
            ProfitOf(tbl))

\* get_equity_curve: one row per closed trade, by timestamp.
GetEquityCurve(tbl) ==
    LET s == ClosedByTime(tbl)
    IN [k \in 1..Len(s) |->
          [timestamp |-> tbl[s[k]].timestamp,
           cumulative_profit |-> WindowSum(tbl, s[k])]]

\* SELECT DISTINCT agent_name FROM trades WHERE agent_name IS NOT NULL,
\* then ['Semua'] + list
AgentList(tbl) == SeqByRank({tbl[i].agent_name : i \in 1..Len(tbl)}, AgentRank)

----------------------------------------------------------------------------
(* Pure parts of the rendering.                                            *)

\* trades_df[trades_df['action'].isin(['BUY', 'SELL'])]
IsEntry(row) == row.action \in {"BUY", "SELL"}

\* total_trades: the number of BUY/SELL rows of the loaded window
TotalTrades(df) == Cardinality({k \in 1..Len(df) : IsEntry(df[k])})

\* trades_df['profit'].sum(): NULL profits are skipped; "Rp0" when empty
TotalProfit(df) ==
    IF Len(df) = 0 THEN 0
    ELSE SumOver({k \in 1..Len(df) : ~IsNull(df[k].profit)},
                 [k \in 1..Len(df) |-> IF IsNull(df[k].profit) THEN 0
                                       ELSE Val(df[k].profit)])

\* agent_perf['wins'].sum()
TotalWins(perf) == SumOver(1..Len(perf), [k \in 1..Len(perf) |-> perf[k].wins])

\* n / d * 100 as the one-decimal percentage the page shows, in tenths of
\* a percent, rounded to nearest
Percent(n, d) == (2000 * n + d) \div (2 * d)

\* the headline win rate: "0%" when agent_perf is empty, 0 when there is
\* no BUY/SELL row in the window
WinRate(df, perf) ==
    IF Len(perf) # 0
    THEN IF TotalTrades(df) > 0
         THEN Percent(TotalWins(perf), TotalTrades(df))
         ELSE 0
    ELSE 0

\* sentiment_df.iloc[0]['sentiment_signal'], or "N/A"
LatestSentiment(df) == IF Len(df) # 0 THEN df[1].sentiment_signal ELSE "N/A"

\* signal_map with .fillna(0)
SignalValue(sig) ==
    CASE sig = "BULLISH" -> 1
      [] sig = "NEUTRAL" -> 0
      [] sig = "BEARISH" -> -1
      [] OTHER -> 0

\* the per-agent win_rate column of the leaderboard
WithWinRate(perf) ==
    [k \in 1..Len(perf) |->
        [agent_name |-> perf[k].agent_name,
         total_profit |-> perf[k].total_profit,
         win_rate |-> IF perf[k].total_trades = 0 THEN 0
                      ELSE Percent(perf[k].wins, perf[k].total_trades)]]

\* agent_perf.sort_values('total_profit', ascending=False): one sort key and
\* the default sort kind (quicksort, not stable), so rows of equal
\* total_profit may come in either order.
SortValues(perf) ==
    LET n == Len(perf)
        perms == {w \in [1..n -> 1..n] :
                     /\ Injective(w)
                     /\ \A a, b \in 1..n :
                          a < b => perf[w[a]].total_profit >= perf[w[b]].total_profit}
    IN {[a \in 1..n |-> perf[w[a]]] : w \in perms}

\* sentiment_df.sort_values('timestamp') with the signal_value column
SentimentSeries(df) ==
    LET n == Len(df)
    IN [a \in 1..n |->
          [timestamp |-> df[n + 1 - a].timestamp,
           signal_value |-> SignalValue(df[n + 1 - a].sentiment_signal)]]

\* the agent filter of the trade table; date_range is not read
FilteredTrades(df, agent) ==
    IF agent # Semua
    THEN SelectSeq(df, LAMBDA row : row.agent_name = agent)
    ELSE df

\* row.get('reflection'): the column when the frame has it, else None
RowGet(row, col) == IF col \in DOMAIN row THEN row[col] ELSE None

\* one expander of the decision log: the reason line is always written,
\* the reflection line only if pd.notna(row.get('reflection'))
LogEntry(row) ==
    [id |-> row.id, timestamp |-> row.timestamp, agent_name |-> row.agent_name,
     reason |-> TRUE, reflection |-> RowGet(row, "reflection")]

\* filtered_trades.head(5) as expanders
DecisionLog(df) ==
    [k \in 1..Min(Len(df), LogHead) |-> LogEntry(df[k])]

BlankPage ==
    [metrics |-> <<>>, equity |-> "none", equity_points |-> <<>>,
     leaderboard |-> "none", leaderboard_rows |-> <<>>,
     sentiment |-> "none", sentiment_points |-> <<>>,
     table |-> "none", table_rows |-> <<>>,
     logs |-> "none", log_entries |-> <<>>]

\* View without the test for an empty frame
ViewUnguarded(df, shown) == shown

\* "chart"/"table"/"list" when the frame has rows, the st.info placeholder
\* otherwise
View(df, shown) == IF Len(df) # 0 THEN shown ELSE "placeholder"

\* everything below "Load data": lines 121-326
Rendered(df, perf, sent, eq, agent, board) ==
    LET shown == FilteredTrades(df, agent)
    IN [metrics |-> <<[total_trades |-> TotalTrades(df),
                       total_profit |-> TotalProfit(df),
                       win_rate |-> WinRate(df, perf),
                       sentiment |-> LatestSentiment(sent)]>>,
        equity |-> View(eq, "chart"), equity_points |-> eq,
        leaderboard |-> View(perf, "chart"), leaderboard_rows |-> board,
        sentiment |-> View(sent, "chart"), sentiment_points |-> SentimentSeries(sent),
        table |-> View(shown, "table"), table_rows |-> shown,
        logs |-> View(shown, "list"), log_entries |-> DecisionLog(shown)]

----------------------------------------------------------------------------
(* The store's contents.                                                   *)

Profits == {-5, 0, 10}
Reflections == {"lesson"}
Signals == {"BULLISH", "BEARISH"}

Option(S) == {None} \cup {Some(v) : v \in S}

TradeRecords(Ts, Acts, Ps, Ags, Rs) ==
    [timestamp : Ts, action : Acts, profit : Ps, agent_name : Ags, reflection : Rs]

Tables(Recs, n) == UNION {[1..m -> Recs] : m \in 0..n}

SentimentRecords == [timestamp : {1}, sentiment_signal : Signals]

\* the tables of a bot that has traded with both agents: open and closed
\* trades, counted and uncounted action tags, with or without a
\* reflection
FullTables ==
    Tables(TradeRecords(Timestamps, TradeActions, Option({-5, 10}), Agents,
                        Option(Reflections)), MaxTrades)

\* the tables that differ in what the aggregates read: agent and profit
AggTables ==
    Tables(TradeRecords({1}, {"BUY"}, Option(Profits), Agents, {None}), MaxTrades)

----------------------------------------------------------------------------
(* The script.                                                             *)

NoEntry == [valid |-> FALSE, value |-> <<>>]
Entry(v) == [valid |-> TRUE, value |-> v]

\* date_input's default is the last seven days
DefaultRange == <<2, 2>>
DateRanges == {<<2, 2>>, <<1, 1>>, <<1, 2>>}

\* state of a session before its first run: the widgets' defaults
InitSession ==
    /\ cache = [trades |-> NoEntry, perf |-> NoEntry, sent |-> NoEntry]
    /\ auto_refresh = TRUE
    /\ date_range = DefaultRange
    /\ selected_agent = Semua
    /\ agent_options = <<>>
    /\ pc = "start"
    /\ invoked = {}
    /\ error = "none"
    /\ trades_df = <<>>
    /\ agent_perf = <<>>
    /\ sentiment_df = <<>>
    /\ equity_df = <<>>
    /\ page = BlankPage

\* a run starts from the top with fresh locals and an empty page
StartRun ==
    /\ pc' = "start"
    /\ invoked' = {}
    /\ error' = "none"
    /\ agent_options' = <<>>
    /\ trades_df' = <<>>
    /\ agent_perf' = <<>>
    /\ sentiment_df' = <<>>
    /\ equity_df' = <<>>
    /\ page' = BlankPage

\* pd.read_sql_query raises: nothing catches it, the run ends there
Raise ==
    /\ pc' = "aborted"
    /\ error' = "DataUnavailable"

\* lines 84-90: the checkbox; when it is set the script sleeps and reruns
\* before anything below line 90 is executed
AutoRefresh ==
    /\ pc = "start"
    /\ pc' = IF auto_refresh THEN "rerun" ELSE "sidebar"
    /\ UNCHANGED <<store, cache, widgets, invoked, error, frames, page>>

\* line 90: st.rerun()
Rerun ==
    /\ pc = "rerun"
    /\ StartRun
    /\ UNCHANGED <<store, cache, auto_refresh, date_range, selected_agent>>

\* lines 92-109: date input, the agent-list query, the selectbox
Sidebar ==
    /\ pc = "sidebar"
    /\ \/ /\ agent_options' = <<Semua>> \o AgentList(trades)
          /\ selected_agent' =
                IF \E k \in 1..Len(agent_options') : agent_options'[k] = selected_agent
                THEN selected_agent ELSE Semua
          /\ pc' = "load_trades"
          /\ UNCHANGED error
       \/ /\ Raise
          /\ UNCHANGED <<agent_options, selected_agent>>
    /\ UNCHANGED <<store, cache, auto_refresh, date_range, invoked, frames, page>>

\* line 116: trades_df = load_trades(), cached
LoadTrades ==
    /\ pc = "load_trades"
    /\ invoked' = invoked \cup {"load_trades"}
    /\ IF cache.trades.valid
       THEN /\ trades_df' = cache.trades.value
            /\ pc' = "load_perf"
            /\ UNCHANGED <<cache, error>>
       ELSE \/ \E r \in LoadTradesResults(trades) :
                 /\ trades_df' = r
                 /\ cache' = [cache EXCEPT !.trades = Entry(r)]
                 /\ pc' = "load_perf"
                 /\ UNCHANGED error
            \/ /\ Raise
               /\ UNCHANGED <<cache, trades_df>>
    /\ UNCHANGED <<store, widgets, agent_perf, sentiment_df, equity_df, page>>

\* line 117: agent_perf = load_agent_performance(), cached
LoadPerf ==
    /\ pc = "load_perf"
    /\ invoked' = invoked \cup {"load_agent_performance"}
    /\ IF cache.perf.valid
       THEN /\ agent_perf' = cache.perf.value
            /\ pc' = "load_sent"
            /\ UNCHANGED <<cache, error>>
       ELSE \/ /\ agent_perf' = LoadAgentPerformance(trades)
               /\ cache' = [cache EXCEPT !.perf = Entry(agent_perf')]
               /\ pc' = "load_sent"
               /\ UNCHANGED error
            \/ /\ Raise
               /\ UNCHANGED <<cache, agent_perf>>
    /\ UNCHANGED <<store, widgets, trades_df, sentiment_df, equity_df, page>>

\* line 118: sentiment_df = load_sentiment_history(), cached
LoadSent ==
    /\ pc = "load_sent"
    /\ invoked' = invoked \cup {"load_sentiment_history"}
    /\ IF cache.sent.valid
       THEN /\ sentiment_df' = cache.sent.value
            /\ pc' = "load_equity"
            /\ UNCHANGED <<cache, error>>
       ELSE \/ \E r \in LoadSentimentResults(sentiment) :
                 /\ sentiment_df' = r
                 /\ cache' = [cache EXCEPT !.sent = Entry(r)]
                 /\ pc' = "load_equity"
                 /\ UNCHANGED error
            \/ /\ Raise
               /\ UNCHANGED <<cache, sentiment_df>>
    /\ UNCHANGED <<store, widgets, trades_df, agent_perf, equity_df, page>>

\* line 119: equity_df = get_equity_curve(), not cached
LoadEquity ==
    /\ pc = "load_equity"
    /\ invoked' = invoked \cup {"get_equity_curve"}
    /\ \/ /\ equity_df' = GetEquityCurve(trades)
          /\ pc' = "render"
          /\ UNCHANGED error
       \/ /\ Raise
          /\ UNCHANGED equity_df
    /\ UNCHANGED <<store, cache, widgets, trades_df, agent_perf, sentiment_df, page>>

\* lines 121-326: metrics, charts, leaderboard, trade table, decision log
Render ==
    /\ pc = "render"
    /\ \E board \in SortValues(WithWinRate(agent_perf)) :
          page' = Rendered(trades_df, agent_perf, sentiment_df, equity_df,
                           selected_agent, board)
    /\ pc' = "done"
    /\ UNCHANGED <<store, cache, widgets, invoked, error, frames>>

(* The user: changing a widget reruns the script from the top.  A widget   *)
(* can be used once the run that draws it has stopped or is sleeping.      *)

ToggleAutoRefresh ==
    /\ pc \in {"rerun", "done", "aborted"}
    /\ auto_refresh' = ~auto_refresh
    /\ StartRun
    /\ UNCHANGED <<store, cache, date_range, selected_agent>>

SetDateRange ==
    /\ pc \in {"done", "aborted"}
    /\ \E r \in DateRanges \ {date_range} : date_range' = r
    /\ StartRun
    /\ UNCHANGED <<store, cache, auto_refresh, selected_agent>>

SelectAgent ==
    /\ pc \in {"done", "aborted"}
    /\ \E k \in 1..Len(agent_options) :
          /\ agent_options[k] # selected_agent
          /\ selected_agent' = agent_options[k]
    /\ StartRun
    /\ UNCHANGED <<store, cache, auto_refresh, date_range>>

Script ==
    \/ AutoRefresh
    \/ Rerun
    \/ Sidebar
    \/ LoadTrades
    \/ LoadPerf
    \/ LoadSent
    \/ LoadEquity
    \/ Render
    \/ ToggleAutoRefresh
    \/ SetDateRange
    \/ SelectAgent

(* The dashboard over a store at rest, for every content of the store.     *)

Init ==
    /\ trades \in FullTables
    /\ sentiment \in Tables(SentimentRecords, 1)
    /\ InitSession

Next == Script

Spec == Init /\ [][Next]_vars

(* The same, over the tables that differ in what the aggregates read.     *)

InitAgg ==
    /\ trades \in AggTables
    /\ sentiment \in Tables(SentimentRecords, 1)
    /\ InitSession

SpecAgg == InitAgg /\ [][Next]_vars

----------------------------------------------------------------------------
(* The bot writing while the dashboard runs, and the cache entries ageing. *)

\* the bot records a new trade; its profit is unset until the trade closes
OpenTrade ==
    /\ Len(trades) < MaxTrades
    /\ \E t \in TradeRecords(Timestamps, TradeActions, {None}, {"A"}, {None}) :
          trades' = Append(trades, t)
    /\ UNCHANGED <<sentiment, cache, widgets, pc, invoked, error, frames, page>>

\* the bot closes a trade: profit is set once
CloseTrade ==
    /\ \E i \in 1..Len(trades) :
          /\ IsNull(trades[i].profit)
          /\ trades' = [trades EXCEPT ![i].profit = Some(10)]
    /\ UNCHANGED <<sentiment, cache, widgets, pc, invoked, error, frames, page>>

\* the bot appends a sentiment reading
AddSentiment ==
    /\ Len(sentiment) < 1
    /\ \E r \in SentimentRecords : sentiment' = Append(sentiment, r)
    /\ UNCHANGED <<trades, cache, widgets, pc, invoked, error, frames, page>>

\* an entry outlives its ttl (10 s, 60 s, 300 s) and is dropped.  The clock
\* is not modelled: each entry may expire at any moment, which admits every
\* schedule of the real clock (and some that three clocks running at the
\* same rate cannot produce).
Expire ==
    /\ \E c \in {"trades", "perf", "sent"} :
          /\ cache[c].valid
          /\ cache' = [cache EXCEPT ![c] = NoEntry]
    /\ UNCHANGED <<store, widgets, pc, invoked, error, frames, page>>

InitLive ==
    /\ trades = <<>>
    /\ sentiment = <<>>
    /\ InitSession

NextLive ==
    \/ AutoRefresh
    \/ Rerun
    \/ Sidebar
    \/ LoadTrades
    \/ LoadPerf
    \/ LoadSent
    \/ LoadEquity
    \/ Render
    \/ ToggleAutoRefresh
    \/ OpenTrade
    \/ CloseTrade
    \/ AddSentiment
    \/ Expire

SpecLive == InitLive /\ [][NextLive]_vars

----------------------------------------------------------------------------
(* Properties.                                                             *)

FourOperations ==
    {"load_trades", "load_agent_performance", "load_sentiment_history",
     "get_equity_curve"}

\* the run has the result of load_agent_performance in hand
PerfLoaded == pc \in {"load_sent", "load_equity", "render", "done"}

\* the run has the result of get_equity_curve in hand
EquityLoaded == pc \in {"render", "done"}

\* C1: get_equity_curve returns one row per closed trade in timestamp
\* order, and for some timestamp-ascending order of the closed trades the
\* rows obey cumulative[1] = profit[1], cumulative[k] = cumulative[k-1] +
\* profit[k], also when closed trades share a timestamp.
C1_PrefixSumLaw ==
    EquityLoaded =>
        LET C == {i \in 1..Len(trades) : trades[i].profit # None}
            m == Cardinality(C)
        IN /\ Len(equity_df) = m
           /\ \E s \in [1..m -> C] :
                /\ \A a, b \in 1..m : a # b => s[a] # s[b]
                /\ \A a, b \in 1..m :
                     a < b => trades[s[a]].timestamp <= trades[s[b]].timestamp
                /\ \A k \in 1..m :
                     /\ equity_df[k].timestamp = trades[s[k]].timestamp
                     /\ equity_df[k].cumulative_profit =
                           (IF k = 1 THEN 0 ELSE equity_df[k - 1].cumulative_profit)
                           + trades[s[k]].profit[1]

\* C2: with auto-refresh on, a run does not restart before it has invoked
\* the four load operations.
C2_NoRestartBeforeLoads ==
    (pc = "rerun" /\ auto_refresh) => invoked = FourOperations

\* C3: the headline win rate is 0 whenever the loaded window holds no
\* closed trade.
C3_ZeroWithoutClosedInWindow ==
    (pc = "done" /\ \A k \in 1..Len(trades_df) : trades_df[k].profit = None)
        => page.metrics[1].win_rate = 0

\* C4: a failing store read never ends the run with an unhandled error.
C4_NoUnhandledError ==
    error = "none" /\ pc # "aborted"

\* C5: every trade in the trade table and in the decision log lies inside
\* the selected date range and belongs to the selected agent (any agent
\* for 'Semua'), and every window trade that passes both filters is in the
\* table.
C5_FiltersApplied ==
    pc = "done" =>
        LET Passes(r) ==
                /\ date_range[1] <= r.timestamp
                /\ r.timestamp <= date_range[2]
                /\ (selected_agent = Semua \/ r.agent_name = selected_agent)
        IN /\ \A k \in 1..Len(page.table_rows) : Passes(page.table_rows[k])
           /\ \A k \in 1..Len(page.log_entries) : Passes(page.log_entries[k])
           /\ \A k \in 1..Len(trades_df) :
                Passes(trades_df[k]) =>
                    \E j \in 1..Len(page.table_rows) :
                        page.table_rows[j].id = trades_df[k].id

\* C6: the leaderboard is in total_profit descending order, agents of
\* equal total_profit in agent_name ascending order.
C6_TiesByAgentName ==
    pc = "done" =>
        \A a, b \in 1..Len(page.leaderboard_rows) :
            a < b =>
                LET x == page.leaderboard_rows[a]
                    y == page.leaderboard_rows[b]
                IN \/ x.total_profit > y.total_profit
                   \/ /\ x.total_profit = y.total_profit
                      /\ AgentRank[x.agent_name] < AgentRank[y.agent_name]

\* C7: load_agent_performance has exactly one row for each agent with a
\* closed trade and none for any other agent; the row's total_trades is
\* the number of the agent's closed trades, wins the number of those with
\* profit > 0, total_profit their sum, and wins <= total_trades.
C7_ClosedTradesOnly ==
    PerfLoaded =>
        /\ \A k \in 1..Len(agent_perf) : agent_perf[k].agent_name \in Agents
        /\ \A g \in Agents :
             LET done == {i \in 1..Len(trades) :
                             trades[i].agent_name = g /\ trades[i].profit # None}
                 won == {i \in done : trades[i].profit[1] > 0}
                 rows == {k \in 1..Len(agent_perf) : agent_perf[k].agent_name = g}
             IN IF done = {}
                THEN rows = {}
                ELSE /\ Cardinality(rows) = 1
                     /\ \A k \in rows :
                          /\ agent_perf[k].total_trades = Cardinality(done)
                          /\ agent_perf[k].wins = Cardinality(won)
                          /\ agent_perf[k].wins <= agent_perf[k].total_trades
                          /\ agent_perf[k].total_profit =
                                SumOver(done, [i \in done |-> trades[i].profit[1]])

\* an agent with a closed trade that is not a win (profit 0) beside an
\* agent whose only trade is open
C7_Witness ==
    /\ pc = "done"
    /\ Len(trades) = 2
    /\ trades[1].agent_name = "A" /\ trades[1].profit = Some(0)
    /\ trades[2].agent_name = "B" /\ trades[2].profit = None
    /\ Len(agent_perf) = 1
    /\ agent_perf[1].wins = 0

\* C8: every entry of the decision log shows the reason and, when the
\* stored trade has a reflection, that reflection.
C8_ReflectionShown ==
    pc = "done" =>
        \A k \in 1..Len(page.log_entries) :
            LET e == page.log_entries[k]
            IN /\ e.reason
               /\ trades[e.id].reflection # None =>
                     e.reflection = trades[e.id].reflection

EmptyTables == trades = <<>> /\ sentiment = <<>>

\* C9: over empty tables the four operations return empty frames, the run
\* that reaches the rendering finishes, the only way a run ends early is a
\* failed store read, and the finished page shows 0 trades, 0 profit, 0
\* win rate, sentiment 'N/A' and a placeholder for every chart, the table
\* and the decision log.
C9_EmptyTables ==
    EmptyTables =>
        /\ trades_df = <<>> /\ agent_perf = <<>>
        /\ sentiment_df = <<>> /\ equity_df = <<>>
        /\ pc = "render" => ENABLED Render
        /\ pc = "aborted" => error = "DataUnavailable"
        /\ pc # "aborted" => error = "none"
        /\ pc = "done" =>
             /\ invoked = FourOperations
             /\ page.metrics = <<[total_trades |-> 0, total_profit |-> 0,
                                  win_rate |-> 0, sentiment |-> "N/A"]>>
             /\ page.equity = "placeholder"
             /\ page.leaderboard = "placeholder"
             /\ page.sentiment = "placeholder"
             /\ page.table = "placeholder"
             /\ page.logs = "placeholder"
             /\ page.table_rows = <<>> /\ page.log_entries = <<>>

\* a run over empty tables has finished
C9_Witness == EmptyTables /\ pc = "done"

\* C10: the displayed headline win rate is a percentage between 0 and 100
\* (page.metrics holds it in tenths of a percent).
C10_WinRateIsPercentage ==
    pc = "done" =>
        /\ 0 <= page.metrics[1].win_rate
        /\ page.metrics[1].win_rate <= 1000

====
